---- MODULE Spec2Model ----
(***************************************************************************)
(* FinCalc v2: the projection engine (src/src/core/FinancialEngine.js),    *)
(* the amortization formulas (src/src/data/LiabilityClasses.js), the asset *)
(* registry (src/unnamed/part_000), the event bus                          *)
(* (src/src/core/EventBus.js), the data manager and the Alpine component   *)
(* that drives them (src/src/app.js).                                      *)
(*                                                                         *)
(* Numbers.  Money is counted in hundredths of the currency unit, so the   *)
(* code's Math.round(x * 100) / 100 is rounding to an integer.  Rates are  *)
(* integer percents.  A compounded amount of year y is value*(1+r/100)^y;  *)
(* every money field of a YearPoint of year y holds the exact integer      *)
(* numerator of that amount over Scale(y) = 100^y.  The field real is the  *)
(* exact fraction [num, den] = netWorth / (1+inflation/100)^y.             *)
(* Arithmetic is exact: floating point rounding is not modelled.           *)
(***************************************************************************)
EXTENDS Integers, Sequences, FiniteSets, TLC

VARIABLES
    window,     \* which global registries are loaded: [assetClasses, liabilityClasses]
    cache,      \* FinancialEngine.cache: cache key -> reference of the stored object
    heap,       \* the live projections objects; a reference is an index
    inserted,   \* history: the content each object had when calculateProjections made it
    seen,       \* history: fingerprint -> what the first call with it returned since clearCache
    args,       \* the arguments of the current / last engine call
    result,     \* what the last call returned
    lastOp,     \* the last operation performed
    app,        \* the finCalcApp component: portfolio, settings, scenarios, projections
    storage,    \* localStorage under DataManager.storageKey: None or the saved data
    storageFull,\* whether localStorage.setItem throws (the quota is exceeded)
    eventBus,   \* window.eventBus: the handlers per event, and what the last call invoked
    dataManager \* window.dataManager: its defaultData, and whether the component holds it

vars == <<window, cache, heap, inserted, seen, args, result, lastOp, app, storage,
          storageFull, eventBus, dataManager>>

-----------------------------------------------------------------------------
(* Bounds of the model *)

MaxAssets == 2
MaxLiabilities == 1
MaxHorizon == 2
MaxYears == 3
MaxObjects == 3
MaxPrincipal == 20
MaxHandlers == 3
MaxWrappers == 1
MaxCalls == 2

(* Program constants *)

MonthsPerYear == 12
PercentBase == 100

None == [kind |-> "none"]

ScenarioTypes == <<"pessimistic", "base", "optimistic">>

\* AssetClasses.assetTypes: the inflation adjustment of every registered type
assetTypes ==
    [stocks |-> [inflationAdjustment |-> [pessimistic |-> -1, base |-> 5, optimistic |-> 10]],
     bonds  |-> [inflationAdjustment |-> [pessimistic |-> -2, base |-> 1, optimistic |-> 5]],
     cash   |-> [inflationAdjustment |-> [pessimistic |-> -1, base |-> 0, optimistic |-> 1]],
     realty |-> [inflationAdjustment |-> [pessimistic |-> -4, base |-> 0, optimistic |-> 2]]]

\* DataManager.getDefaultData().scenarios / finCalcApp.scenarios
defaultScenarios ==
    [returnRates |->
        [stocks |-> [pessimistic |-> 5, base |-> 12, optimistic |-> 20],
         bonds  |-> [pessimistic |-> 3, base |-> 8,  optimistic |-> 12],
         cash   |-> [pessimistic |-> 4, base |-> 7,  optimistic |-> 10],
         realty |-> [pessimistic |-> 0, base |-> 5,  optimistic |-> 12]]]

-----------------------------------------------------------------------------
(* Arithmetic helpers *)

RECURSIVE Pow(_, _)
Pow(b, e) == IF e <= 0 THEN 1 ELSE b * Pow(b, e - 1)

\* F applied to the value of e, which is computed once
Let(e, F(_)) == CHOOSE y \in {F(v) : v \in {e}} : TRUE

RECURSIVE GCD(_, _)
GCD(a, b) == IF b = 0 THEN a ELSE GCD(b, a % b)

\* Math.round of the fraction num/den (den > 0): the nearest integer, halves up
MathRound(num, den) == (2 * num + den) \div (2 * den)

MathMax(a, b) == IF a >= b THEN a ELSE b

Scale(year) == Pow(PercentBase, year)

-----------------------------------------------------------------------------
(* LiabilityClasses *)

\* what JavaScript yields for 0/0: not a number
NaN == "NaN"

\* Number.isNaN(v)
isNaN(v) == ToString(v) = ToString(NaN)

\* the closed form of calculateRemainingBalance before rounding, as a fraction num/den of
\* hundredths with den >= 0; den = 0 stands for the 0/0 of a rate of 0
remainingFraction(liability, years) ==
    LET \* 1 + monthlyRate = (1200 + rate) / 1200, in lowest terms p / q
        g == GCD(PercentBase * MonthsPerYear + liability.rate, PercentBase * MonthsPerYear)
        p == (PercentBase * MonthsPerYear + liability.rate) \div g
        q == (PercentBase * MonthsPerYear) \div g
        totalPayments == liability.termYears * MonthsPerYear
        paymentsMade == years * MonthsPerYear
        \* ((1+r)^total - (1+r)^made) / ((1+r)^total - 1), times q^total
        over == Pow(p, totalPayments) - Pow(p, paymentsMade) * Pow(q, totalPayments - paymentsMade)
        under == Pow(p, totalPayments) - Pow(q, totalPayments)
    IN  Let(IF under < 0 THEN <<-over, -under>> ELSE <<over, under>>, LAMBDA f :
        Let(GCD(IF f[1] < 0 THEN -f[1] ELSE f[1], f[2]), LAMBDA h :
            IF f[2] = 0 THEN [num |-> 0, den |-> 0]
            ELSE [num |-> liability.principal * (f[1] \div h), den |-> f[2] \div h]))

\* mutant: interest accrues and nothing is repaid
amortizedBalance_accrues(liability, years) ==
    Let(remainingFraction(liability, years), LAMBDA remainingBalance :
        liability.principal + MathRound(remainingBalance.num, remainingBalance.den))

\* Math.max(0, Math.round(remainingBalance * 100) / 100)
amortizedBalance(liability, years) ==
    Let(remainingFraction(liability, years), LAMBDA remainingBalance :
        IF remainingBalance.den = 0 THEN NaN
        ELSE MathMax(0, MathRound(remainingBalance.num, remainingBalance.den)))

\* mutant: the balance "now" is read from the stored currentBalance
calculateRemainingBalance_stored(liability, years) ==
    IF years <= 0 THEN liability.currentBalance
    ELSE IF years >= liability.termYears THEN 0
    ELSE amortizedBalance(liability, years)

\* LiabilityClasses.calculateRemainingBalance(liability, years)
calculateRemainingBalance(liability, years) ==
    IF years <= 0 THEN liability.principal
    ELSE IF years >= liability.termYears THEN 0
    ELSE amortizedBalance(liability, years)

-----------------------------------------------------------------------------
(* FinancialEngine: the projection of one scenario *)

\* asset.value || 0
valueOrZero(asset) == IF "value" \in DOMAIN asset THEN asset.value ELSE 0

\* liability.currentBalance || 0
balanceOrZero(liability) ==
    IF "currentBalance" \in DOMAIN liability THEN liability.currentBalance ELSE 0

\* mutant: every asset joins the group of the first asset, whatever its type
groupStep_oneGroup(groups, asset) ==
    IF groups # <<>>
    THEN [i \in DOMAIN groups |->
            IF i = 1 THEN [groups[i] EXCEPT !.assets = Append(@, asset)] ELSE groups[i]]
    ELSE Append(groups, [type |-> asset.type, assets |-> <<asset>>])

\* one step of the reduce of groupAssetsByType; the groups keep insertion order
groupStep(groups, asset) ==
    IF \E i \in DOMAIN groups : groups[i].type = asset.type
    THEN [i \in DOMAIN groups |->
            IF groups[i].type = asset.type
            THEN [groups[i] EXCEPT !.assets = Append(@, asset)]
            ELSE groups[i]]
    ELSE Append(groups, [type |-> asset.type, assets |-> <<asset>>])

RECURSIVE reduceGroups(_, _)
reduceGroups(assets, groups) ==
    IF assets = <<>> THEN groups
    ELSE reduceGroups(Tail(assets), groupStep(groups, Head(assets)))

\* FinancialEngine.groupAssetsByType(assets)
groupAssetsByType(assets) == reduceGroups(assets, <<>>)

RECURSIVE sumValues(_)
sumValues(assets) ==
    IF assets = <<>> THEN 0 ELSE valueOrZero(Head(assets)) + sumValues(Tail(assets))

\* mutant: one compounding period too many
calculateAssetTypeValue_early(assets, returnRate, years) ==
    sumValues(assets) * Pow(PercentBase + returnRate, years + 1)

\* mutant: the rate discounts the value instead of growing it
calculateAssetTypeValue_discounted(assets, returnRate, years) ==
    sumValues(assets) * Pow(PercentBase - returnRate, years)

\* FinancialEngine.calculateAssetTypeValue(assets, returnRate, years), over Scale(years);
\* a total of 0 is 0 times any factor, and the factor is left uncomputed
calculateAssetTypeValue(assets, returnRate, years) ==
    LET totalValue == sumValues(assets)
        growthFactor == Pow(PercentBase + returnRate, years)
    IN  IF totalValue = 0 THEN 0 ELSE totalValue * growthFactor

\* mutant: the adjustment alone, inflation forgotten
calculateInflationAdjustedReturn_bare(inflationRate, adjustment) == adjustment

\* FinancialEngine.calculateInflationAdjustedReturn(inflationRate, adjustment)
calculateInflationAdjustedReturn(inflationRate, adjustment) == inflationRate + adjustment

\* AssetClasses.getAssetInfo(assetType)
getAssetInfo(assetType) ==
    IF assetType \in DOMAIN assetTypes THEN assetTypes[assetType] ELSE None

\* mutant: a type without registry entry is given the adjustment of cash
inflationAdjustmentOf_asCash(assetType, scenarioType) ==
    IF window.assetClasses /\ getAssetInfo(assetType) # None
    THEN getAssetInfo(assetType).inflationAdjustment[scenarioType]
    ELSE assetTypes.cash.inflationAdjustment[scenarioType]

\* window.assetClasses?.getAssetInfo(assetType)?.inflationAdjustment?.[scenarioType] || 0
inflationAdjustmentOf(assetType, scenarioType) ==
    IF window.assetClasses /\ getAssetInfo(assetType) # None
    THEN getAssetInfo(assetType).inflationAdjustment[scenarioType]
    ELSE 0

RECURSIVE reduceLiabilities(_, _, _)
reduceLiabilities(liabilities, years, totalLiabilities) ==
    IF liabilities = <<>> THEN totalLiabilities
    ELSE reduceLiabilities(Tail(liabilities), years,
            IF ~window.liabilityClasses
            THEN totalLiabilities + balanceOrZero(Head(liabilities))
            ELSE totalLiabilities + calculateRemainingBalance(Head(liabilities), years))

\* FinancialEngine.calculateLiabilitiesValue(liabilities, years)
calculateLiabilitiesValue(liabilities, years) ==
    IF Len(liabilities) = 0 THEN 0 ELSE reduceLiabilities(liabilities, years, 0)

\* the forEach over Object.entries(assetsByType): fills breakdown and adds up nominal
RECURSIVE forEachType(_, _, _, _, _)
forEachType(groups, scenarioType, settings, year, yearData) ==
    IF groups = <<>> THEN yearData
    ELSE
        LET assetType == Head(groups).type
            inflationAdjustment == inflationAdjustmentOf(assetType, scenarioType)
            returnRate == calculateInflationAdjustedReturn(settings.inflation, inflationAdjustment)
            typeValue == calculateAssetTypeValue(Head(groups).assets, returnRate, year)
        IN  forEachType(Tail(groups), scenarioType, settings, year,
                [yearData EXCEPT
                    !.breakdown = [t \in DOMAIN @ \cup {assetType} |->
                                     IF t = assetType THEN typeValue ELSE @[t]],
                    !.nominal = @ + typeValue])

\* mutant: net worth that forgets the debts
yearPoint_gross(portfolio, scenarioType, settings, year) ==
    LET filled == forEachType(groupAssetsByType(portfolio.assets), scenarioType, settings, year,
                    [year |-> year, nominal |-> 0, real |-> [num |-> 0, den |-> 1],
                     breakdown |-> <<>>, liabilities |-> 0, netWorth |-> 0])
        liabilitiesValue == calculateLiabilitiesValue(portfolio.liabilities, year) * Scale(year)
    IN  [filled EXCEPT !.liabilities = liabilitiesValue,
                       !.netWorth = filled.nominal,
                       !.real = [num |-> filled.nominal,
                                 den |-> Pow(PercentBase + settings.inflation, year)]]

\* mutant: debts that compound at the scenario's cash rate
yearPoint_debtGrows(portfolio, scenarioType, settings, year) ==
    LET filled == forEachType(groupAssetsByType(portfolio.assets), scenarioType, settings, year,
                    [year |-> year, nominal |-> 0, real |-> [num |-> 0, den |-> 1],
                     breakdown |-> <<>>, liabilities |-> 0, netWorth |-> 0])
        liabilitiesValue == calculateLiabilitiesValue(portfolio.liabilities, year) *
                               Pow(PercentBase + assetTypes.cash.inflationAdjustment[scenarioType], year)
        netWorth == filled.nominal - liabilitiesValue
    IN  [filled EXCEPT !.liabilities = liabilitiesValue,
                       !.netWorth = netWorth,
                       !.real = [num |-> netWorth,
                                 den |-> Pow(PercentBase + settings.inflation, year)]]

\* the body of the year loop of calculateScenarioProjection: one YearPoint
yearPoint(portfolio, scenarioType, settings, year) ==
    LET assetsByType == groupAssetsByType(portfolio.assets)
        empty == [year |-> year, nominal |-> 0, real |-> [num |-> 0, den |-> 1],
                  breakdown |-> <<>>, liabilities |-> 0, netWorth |-> 0]
        filled == forEachType(assetsByType, scenarioType, settings, year, empty)
        \* over Scale(year); no debt is 0 at any scale
        liabilitiesValue ==
            Let(calculateLiabilitiesValue(portfolio.liabilities, year), LAMBDA balance :
                IF balance = 0 THEN 0 ELSE balance * Scale(year))
        netWorth == filled.nominal - liabilitiesValue
        inflationFactor == Pow(PercentBase + settings.inflation, year)
    IN  Let(netWorth, LAMBDA worth :
            [filled EXCEPT !.liabilities = liabilitiesValue,
                           !.netWorth = worth,
                           \* 0 / inflationFactor is 0
                           !.real = IF worth = 0 THEN [num |-> 0, den |-> 1]
                                    ELSE [num |-> worth, den |-> inflationFactor]])

\* mutant: the loop stops one year short
RECURSIVE yearLoop_short(_, _, _, _, _)
yearLoop_short(portfolio, scenarioType, settings, year, years) ==
    IF year < settings.horizonYears
    THEN yearLoop_short(portfolio, scenarioType, settings, year + 1,
                  Append(years, yearPoint(portfolio, scenarioType, settings, year)))
    ELSE years

\* for (let year = 0; year <= settings.horizonYears; year++) years.push(yearData)
RECURSIVE yearLoop(_, _, _, _, _)
yearLoop(portfolio, scenarioType, settings, year, years) ==
    IF year <= settings.horizonYears
    THEN yearLoop(portfolio, scenarioType, settings, year + 1,
                  Append(years, yearPoint(portfolio, scenarioType, settings, year)))
    ELSE years

\* FinancialEngine.calculateScenarioProjection(portfolio, scenarios, scenarioType, settings)
calculateScenarioProjection(portfolio, scenarios, scenarioType, settings) ==
    yearLoop(portfolio, scenarioType, settings, 0, <<>>)

-----------------------------------------------------------------------------
(* FinancialEngine: the memoized entry point *)

\* JSON.stringify of one asset of the key: {type, value}; an undefined value is omitted
assetJson(a) ==
    IF "value" \in DOMAIN a THEN <<"type", a.type, "value", a.value>> ELSE <<"type", a.type>>

liabilityJson(l) ==
    <<"type", l.type, "principal", l.principal, "rate", l.rate, "termYears", l.termYears>>

\* mutant: the key also serializes the asset and liability ids
getCacheKey_ids(portfolio, scenarios, settings) ==
    <<"assets", [i \in DOMAIN portfolio.assets |->
                    <<"id", portfolio.assets[i].id>> \o assetJson(portfolio.assets[i])],
      "liabilities", [i \in DOMAIN portfolio.liabilities |->
                    <<"id", portfolio.liabilities[i].id>> \o liabilityJson(portfolio.liabilities[i])],
      "scenarios", scenarios.returnRates,
      "horizon", settings.horizonYears,
      "inflation", settings.inflation>>

\* mutant: the key leaves out the horizon
getCacheKey_noHorizon(portfolio, scenarios, settings) ==
    <<"assets", [i \in DOMAIN portfolio.assets |-> assetJson(portfolio.assets[i])],
      "liabilities", [i \in DOMAIN portfolio.liabilities |-> liabilityJson(portfolio.liabilities[i])],
      "scenarios", scenarios.returnRates,
      "inflation", settings.inflation>>

\* FinancialEngine.getCacheKey(portfolio, scenarios, settings): the JSON text, token by token
getCacheKey(portfolio, scenarios, settings) ==
    <<"assets", [i \in DOMAIN portfolio.assets |-> assetJson(portfolio.assets[i])],
      "liabilities", [i \in DOMAIN portfolio.liabilities |-> liabilityJson(portfolio.liabilities[i])],
      "scenarios", scenarios.returnRates,
      "horizon", settings.horizonYears,
      "inflation", settings.inflation>>

\* mutant: a cache that holds one entry, the newest
cacheSet_single(map, key, ref) == [k \in {key} |-> ref]

\* this.cache.set(cacheKey, projections)
cacheSet(map, key, ref) ==
    [k \in DOMAIN map \cup {key} |-> IF k = key THEN ref ELSE map[k]]

\* the object literal built on a cache miss
newProjections(portfolio, scenarios, settings) ==
    [pessimistic |-> calculateScenarioProjection(portfolio, scenarios, "pessimistic", settings),
     base        |-> calculateScenarioProjection(portfolio, scenarios, "base", settings),
     optimistic  |-> calculateScenarioProjection(portfolio, scenarios, "optimistic", settings)]

\* the structural identity of a call's arguments: what two "structurally identical" calls share
Fingerprint(portfolio, scenarios, settings) ==
    [assets |-> [i \in DOMAIN portfolio.assets |->
                    [type |-> portfolio.assets[i].type,
                     hasValue |-> "value" \in DOMAIN portfolio.assets[i],
                     value |-> valueOrZero(portfolio.assets[i])]],
     liabilities |-> [i \in DOMAIN portfolio.liabilities |->
                    [type |-> portfolio.liabilities[i].type,
                     principal |-> portfolio.liabilities[i].principal,
                     rate |-> portfolio.liabilities[i].rate,
                     termYears |-> portfolio.liabilities[i].termYears]],
     rates |-> scenarios.returnRates,
     horizonYears |-> settings.horizonYears,
     inflation |-> settings.inflation]

\* the engine's mutable state, as a value
engineState == [cache |-> cache, heap |-> heap, inserted |-> inserted, seen |-> seen]

\* calculateProjections on the engine state e: the state after the call, the reference it
\* returns, and whether the call needs an object beyond MaxObjects
projectionsCall(e, portfolio, scenarios, settings) ==
    LET cacheKey == getCacheKey(portfolio, scenarios, settings)
        fp == Fingerprint(portfolio, scenarios, settings)
        hit == cacheKey \in DOMAIN e.cache
        ref == IF hit THEN e.cache[cacheKey] ELSE Len(e.heap) + 1
        projections == newProjections(portfolio, scenarios, settings)
    IN  [cache |-> IF hit THEN e.cache ELSE cacheSet(e.cache, cacheKey, ref),
         heap |-> IF hit THEN e.heap ELSE Append(e.heap, projections),
         inserted |-> IF hit THEN e.inserted ELSE Append(e.inserted, projections),
         seen |-> IF fp \in DOMAIN e.seen THEN e.seen
                  ELSE [f \in DOMAIN e.seen \cup {fp} |-> IF f = fp THEN ref ELSE e.seen[f]],
         result |-> ref,
         full |-> ~hit /\ Len(e.heap) >= MaxObjects]

\* FinancialEngine.calculateProjections(portfolio, scenarios, settings)
calculateProjections(portfolio, scenarios, settings) ==
    LET r == projectionsCall(engineState, portfolio, scenarios, settings)
    IN  /\ ~r.full
        /\ cache' = r.cache
        /\ heap' = r.heap
        /\ inserted' = r.inserted
        /\ seen' = r.seen
        /\ result' = r.result
        /\ args' = [portfolio |-> portfolio, scenarios |-> scenarios, settings |-> settings]

\* FinancialEngine.clearCache()
clearCache ==
    /\ cache' = <<>>
    /\ seen' = <<>>
    /\ result' = None
    \* the objects the map held are unreachable now and are collected
    /\ heap' = <<>>
    /\ inserted' = <<>>
    /\ UNCHANGED args

-----------------------------------------------------------------------------
(* Inputs *)

RECURSIVE SeqsUpTo(_, _)
SeqsUpTo(S, n) ==
    IF n = 0 THEN {<<>>}
    ELSE LET shorter == SeqsUpTo(S, n - 1)
         IN  shorter \cup {Append(q, x) : q \in {r \in shorter : Len(r) = n - 1}, x \in S}

Windows == [assetClasses : BOOLEAN, liabilityClasses : BOOLEAN]

\* the page as deployed: both registries are loaded before the engine runs
loadedWindow == [assetClasses |-> TRUE, liabilityClasses |-> TRUE]

AssetPool ==
    {[id |-> "a1", type |-> "stocks", value |-> 100],
     [id |-> "a2", type |-> "stocks", value |-> 200],
     [id |-> "a3", type |-> "cash", value |-> 100],
     [id |-> "a4", type |-> "gold", value |-> 100],
     [id |-> "a5", type |-> "bonds"]}

LiabilityPool ==
    {[id |-> "l1", type |-> "mortgage", principal |-> 60, rate |-> 1200, termYears |-> 2,
      currentBalance |-> 60],
     [id |-> "l2", type |-> "mortgage", principal |-> 60, rate |-> 1200, termYears |-> 2,
      currentBalance |-> 30],
     [id |-> "l3", type |-> "consumer", principal |-> 100, rate |-> 2400, termYears |-> 1,
      currentBalance |-> 100]}

\* deflation included: at -3 only stocks keep a base rate above 0
Inflations == {-3, 0, 6, 7}

\* the table finCalcApp.updateScenarioSettings derives from an inflation
returnRatesFor(inflation) ==
    [t \in DOMAIN assetTypes |->
        [s \in {"pessimistic", "base", "optimistic"} |->
            inflation + assetTypes[t].inflationAdjustment[s]]]

ScenarioPool == {defaultScenarios, [returnRates |-> returnRatesFor(7)]}

\* finCalcApp.updatePortfolioValue: the cached totals of a portfolio
RECURSIVE sumBalances(_)
sumBalances(liabilities) ==
    IF liabilities = <<>> THEN 0
    ELSE balanceOrZero(Head(liabilities)) + sumBalances(Tail(liabilities))

withTotals(assets, liabilities) ==
    [assets |-> assets, liabilities |-> liabilities,
     totalValue |-> sumValues(assets),
     totalLiabilities |-> sumBalances(liabilities),
     netWorth |-> sumValues(assets) - sumBalances(liabilities)]

Portfolios ==
    {withTotals(a, l) : a \in SeqsUpTo(AssetPool, MaxAssets),
                        l \in SeqsUpTo(LiabilityPool, MaxLiabilities)}

SettingsPool ==
    [horizonYears : 0..MaxHorizon, inflation : Inflations, showRealValues : {FALSE}]

\* rate and term of the valid loans whose powers stay within 32 bits
RateTerms == {<<1200, 1>>, <<1200, 2>>, <<2400, 1>>, <<600, 1>>}

\* principals on either side of the least one whose mid-term balance rounds below it
LargePrincipals == {2048, 2049}

ValidLiabilities ==
    {[id |-> "l", type |-> "mortgage", principal |-> pr, rate |-> rt[1], termYears |-> rt[2],
      currentBalance |-> IF paid THEN 0 ELSE pr] :
        pr \in (1..MaxPrincipal) \cup LargePrincipals, rt \in RateTerms, paid \in BOOLEAN}

-----------------------------------------------------------------------------
(* One projection of a fresh engine, over all inputs *)

InitProjection ==
    /\ app = None
    /\ storage = None
    /\ storageFull = FALSE
    /\ eventBus = None
    /\ dataManager = None
    /\ window \in Windows
    /\ cache = <<>>
    /\ heap = <<>>
    /\ inserted = <<>>
    /\ seen = <<>>
    /\ args \in [portfolio : Portfolios, scenarios : ScenarioPool, settings : SettingsPool]
    /\ result = None
    /\ lastOp = "new"

Project ==
    /\ lastOp = "new"
    /\ calculateProjections(args.portfolio, args.scenarios, args.settings)
    /\ lastOp' = "calculateProjections"
    /\ UNCHANGED <<window, app, storage, storageFull, eventBus, dataManager>>

SpecProjection == InitProjection /\ [][Project]_vars

\* the object the last calculateProjections call returned
returned == heap[result]

Projected == lastOp = "calculateProjections"

-----------------------------------------------------------------------------
(* The remaining balance, over valid loans *)

InitBalance ==
    /\ app = None
    /\ storage = None
    /\ storageFull = FALSE
    /\ eventBus = None
    /\ dataManager = None
    /\ window = loadedWindow
    /\ cache = <<>>
    /\ heap = <<>>
    /\ inserted = <<>>
    /\ seen = <<>>
    /\ args \in [liability : ValidLiabilities, years : 0..MaxYears]
    /\ result = None
    /\ lastOp = "new"

RemainingBalance ==
    /\ lastOp = "new"
    /\ result' = calculateRemainingBalance(args.liability, args.years)
    /\ lastOp' = "calculateRemainingBalance"
    /\ UNCHANGED <<window, cache, heap, inserted, seen, args, app, storage,
                 storageFull, eventBus, dataManager>>

SpecBalance == InitBalance /\ [][RemainingBalance]_vars

-----------------------------------------------------------------------------
(* One engine instance under any sequence of calls *)

\* pairs of arguments that are structurally identical but distinct objects: the ids, the
\* stored currentBalance and showRealValues differ, the serialized fields do not
EngineAssets ==
    {<<>>,
     <<[id |-> "a1", type |-> "stocks", value |-> 100]>>,
     <<[id |-> "a6", type |-> "stocks", value |-> 100]>>}

EngineLiabilities ==
    {<<>>,
     <<[id |-> "l1", type |-> "mortgage", principal |-> 60, rate |-> 1200, termYears |-> 2,
        currentBalance |-> 60]>>,
     <<[id |-> "l2", type |-> "mortgage", principal |-> 60, rate |-> 1200, termYears |-> 2,
        currentBalance |-> 30]>>}

EnginePortfolios == {withTotals(a, l) : a \in EngineAssets, l \in EngineLiabilities}

EngineSettings == [horizonYears : {1}, inflation : {6}, showRealValues : BOOLEAN]

InitEngine ==
    /\ app = None
    /\ storage = None
    /\ storageFull = FALSE
    /\ eventBus = None
    /\ dataManager = None
    /\ window \in {w \in Windows : w.assetClasses}
    /\ cache = <<>>
    /\ heap = <<>>
    /\ inserted = <<>>
    /\ seen = <<>>
    /\ args = None
    /\ result = None
    /\ lastOp = "new"

CallProjections ==
    /\ \E p \in EnginePortfolios, st \in EngineSettings :
            calculateProjections(p, defaultScenarios, st)
    /\ lastOp' = "calculateProjections"
    /\ UNCHANGED <<window, app, storage, storageFull, eventBus, dataManager>>

ClearCache ==
    /\ clearCache
    /\ lastOp' = "clearCache"
    /\ UNCHANGED <<window, app, storage, storageFull, eventBus, dataManager>>

NextEngine == CallProjections \/ ClearCache

SpecEngine == InitEngine /\ [][NextEngine]_vars

-----------------------------------------------------------------------------
(* Fractions: exact values of the divisions the metrics perform *)

Abs(x) == IF x < 0 THEN -x ELSE x

\* num/den (den > 0) in lowest terms
Frac(num, den) ==
    Let(<<num, den>>, LAMBDA f :
    Let(GCD(Abs(f[1]), f[2]), LAMBDA g :
        [num |-> f[1] \div g, den |-> f[2] \div g]))

\* f * k for an integer k > 0
FracTimes(f, k) ==
    LET g == GCD(k, f.den)
    IN  Frac(f.num * (k \div g), f.den \div g)

\* f / k for an integer k > 0
FracOver(f, k) ==
    LET g == GCD(Abs(f.num), k)
    IN  IF f.num = 0 THEN f ELSE Frac(f.num \div g, f.den * (k \div g))

FracAdd(a, b) ==
    LET g == GCD(a.den, b.den)
    IN  Frac(a.num * (b.den \div g) + b.num * (a.den \div g), (a.den \div g) * b.den)

\* Math.min(f, k) for an integer k
FracMin(f, k) == IF f.num <= k * f.den THEN f ELSE [num |-> k, den |-> 1]

\* the number 0
zero == [num |-> 0, den |-> 1]

\* Math.max(a, b) of two fractions
FracMax(a, b) == IF a.num * b.den >= b.num * a.den THEN a ELSE b

-----------------------------------------------------------------------------
(* FinancialEngine: metrics, as far as finCalcApp.calculate reads them *)

\* point.<field> || 0 of the YearPoint at a 0-based index, as a fraction of money;
\* a missing point (?.) gives 0
fieldAt(series, index, field) ==
    IF index + 1 \in DOMAIN series /\ series[index + 1][field] # 0
    THEN Frac(series[index + 1][field], Scale(series[index + 1].year))
    ELSE [num |-> 0, den |-> 1]

\* (Math.pow(ratio, 1 / years) - 1) * 100, kept as the ratio and the root taken of it
cagr(ratio, years) == [ratio |-> ratio, root |-> years]

\* a growth rate of 0
noGrowth == cagr([num |-> 1, den |-> 1], 1)

\* the risk weight of an asset type: assetRiskWeights[asset.type] || 3
assetRisk(type) ==
    CASE type = "cash" -> 1
      [] type = "bonds" -> 2
      [] type = "realty" -> 4
      [] type = "stocks" -> 6
      [] OTHER -> 3

RECURSIVE sumRisk(_)
sumRisk(assets) ==
    IF assets = <<>> THEN 0
    ELSE valueOrZero(Head(assets)) * assetRisk(Head(assets).type) + sumRisk(Tail(assets))

\* weightedRisk after the forEach: the sum of (asset.value || 0) / totalValue * assetRisk
weightedRiskOf(portfolio) ==
    LET totalValue == IF portfolio.totalValue # 0 THEN portfolio.totalValue ELSE 1
    IN  IF totalValue < 0
        THEN Frac(-sumRisk(portfolio.assets), -totalValue)
        ELSE Frac(sumRisk(portfolio.assets), totalValue)

\* mutant: the sum is rounded and returned without Math.max(.., 1) and Math.min(.., 10)
calculateRiskScore_unclamped(portfolio, volatility) ==
    IF portfolio.assets = <<>> THEN 1
    ELSE LET volatilityAdjustment == FracMin(FracOver(volatility, 20), 2)
             total == FracAdd(weightedRiskOf(portfolio), volatilityAdjustment)
         IN  MathRound(total.num, total.den)

\* FinancialEngine.calculateRiskScore(portfolio, volatility)
calculateRiskScore(portfolio, volatility) ==
    IF portfolio.assets = <<>> THEN 1
    ELSE LET volatilityAdjustment == FracMin(FracOver(volatility, 20), 2)
             total == FracAdd(weightedRiskOf(portfolio), volatilityAdjustment)
             rounded == MathRound(total.num, total.den)
         IN  IF rounded < 1 THEN 1 ELSE IF rounded > 10 THEN 10 ELSE rounded

\* mutant: the drop is measured from the year before, not from the running maximum
drawdownStep_yearOverYear(acc, yearData) ==
    [maxValue |-> yearData.nominal,
     maxDrawdown |->
        IF acc.maxValue > 0 /\ acc.maxValue > yearData.nominal
        THEN FracMax(acc.maxDrawdown,
                     Frac((acc.maxValue - yearData.nominal) * PercentBase, acc.maxValue))
        ELSE acc.maxDrawdown]

\* the callback of projections.forEach in calculateMaxDrawdown: maxValue and maxDrawdown
\* after one yearData
drawdownStep(acc, yearData) ==
    Let(MathMax(acc.maxValue, yearData.nominal), LAMBDA maxValue :
        [maxValue |-> maxValue,
         maxDrawdown |->
            IF maxValue > 0
            THEN FracMax(acc.maxDrawdown,
                         Frac((maxValue - yearData.nominal) * PercentBase, maxValue))
            ELSE acc.maxDrawdown])

RECURSIVE drawdownLoop(_, _)
drawdownLoop(acc, projections) ==
    IF projections = <<>> THEN acc
    ELSE Let(drawdownStep(acc, Head(projections)), LAMBDA next :
             drawdownLoop(next, Tail(projections)))

\* FinancialEngine.calculateMaxDrawdown(projections), in percent
calculateMaxDrawdown(projections) ==
    drawdownLoop([maxValue |-> 0, maxDrawdown |-> zero], projections).maxDrawdown

\* mutant: the growth rate is guarded against a zero value only, not a zero horizon
calculateMetrics_anyHorizon(portfolio, projections, settings) ==
    LET currentValue == portfolio.totalValue
        futureValueBase == fieldAt(projections.base, Len(projections.base) - 1, "nominal")
        growthRate ==
            IF currentValue > 0
            THEN cagr(FracOver(futureValueBase, currentValue), settings.horizonYears)
            ELSE noGrowth
        finalYear == settings.horizonYears
        pessimisticValue == fieldAt(projections.pessimistic, finalYear, "nominal")
        optimisticValue == fieldAt(projections.optimistic, finalYear, "nominal")
        range == FracAdd(optimisticValue,
                          [num |-> -pessimisticValue.num, den |-> pessimisticValue.den])
        volatility ==
            IF currentValue > 0
            THEN FracTimes(FracOver(range, 2 * currentValue), PercentBase)
            ELSE [num |-> 0, den |-> 1]
    IN  [currentValue |-> currentValue,
         futureValue |-> [pessimistic |-> pessimisticValue,
                          base |-> futureValueBase,
                          optimistic |-> optimisticValue],
         growthRate |-> growthRate,
         volatility |-> volatility,
         riskScore |-> calculateRiskScore(portfolio, volatility)]

\* FinancialEngine.calculateMetrics(portfolio, projections, settings)
calculateMetrics(portfolio, projections, settings) ==
    LET currentValue == portfolio.totalValue
        futureValueBase == fieldAt(projections.base, Len(projections.base) - 1, "nominal")
        growthRate ==
            IF currentValue > 0 /\ settings.horizonYears > 0
            THEN cagr(FracOver(futureValueBase, currentValue), settings.horizonYears)
            ELSE noGrowth
        finalYear == settings.horizonYears
        pessimisticValue == fieldAt(projections.pessimistic, finalYear, "nominal")
        optimisticValue == fieldAt(projections.optimistic, finalYear, "nominal")
        range == FracAdd(optimisticValue,
                          [num |-> -pessimisticValue.num, den |-> pessimisticValue.den])
        volatility ==
            IF currentValue > 0
            THEN FracTimes(FracOver(range, 2 * currentValue), PercentBase)
            ELSE [num |-> 0, den |-> 1]
    IN  [currentValue |-> currentValue,
         futureValue |-> [pessimistic |-> pessimisticValue,
                          base |-> futureValueBase,
                          optimistic |-> optimisticValue],
         growthRate |-> growthRate,
         volatility |-> volatility,
         riskScore |-> calculateRiskScore(portfolio, volatility)]

\* FinancialEngine.calculateMetricsWithLiabilities(portfolio, projections, settings)
calculateMetricsWithLiabilities(portfolio, projections, settings) ==
    LET currentAssets == portfolio.totalValue
        currentLiabilities == calculateLiabilitiesValue(portfolio.liabilities, 0)
        currentNetWorth == currentAssets - currentLiabilities
        futureNetWorthBase == fieldAt(projections.base, Len(projections.base) - 1, "netWorth")
        growthRate ==
            IF currentNetWorth > 0 /\ settings.horizonYears > 0
            THEN cagr(FracOver([num |-> Abs(futureNetWorthBase.num), den |-> futureNetWorthBase.den],
                               Abs(currentNetWorth)),
                      settings.horizonYears)
            ELSE noGrowth
        finalYear == settings.horizonYears
        pessimisticNetWorth == fieldAt(projections.pessimistic, finalYear, "netWorth")
        optimisticNetWorth == fieldAt(projections.optimistic, finalYear, "netWorth")
        range == FracAdd(optimisticNetWorth,
                          [num |-> -pessimisticNetWorth.num, den |-> pessimisticNetWorth.den])
        volatility ==
            IF currentNetWorth > 0
            THEN FracTimes(FracOver(range, 2 * Abs(currentNetWorth)), PercentBase)
            ELSE [num |-> 0, den |-> 1]
    IN  [currentAssets |-> currentAssets,
         currentLiabilities |-> currentLiabilities,
         currentNetWorth |-> currentNetWorth,
         futureNetWorth |-> [pessimistic |-> pessimisticNetWorth,
                             base |-> futureNetWorthBase,
                             optimistic |-> optimisticNetWorth],
         growthRate |-> growthRate,
         volatility |-> volatility,
         debtToAssetsRatio |-> IF currentAssets > 0
                               THEN FracTimes(Frac(currentLiabilities, currentAssets), PercentBase)
                               ELSE [num |-> 0, den |-> 1]]

-----------------------------------------------------------------------------
(* LiabilityClasses and AssetClasses: the records the application creates *)

\* LiabilityClasses.calculateMonthlyPayment(principal, annualRate, termYears), in hundredths
calculateMonthlyPayment(principal, annualRate, termYears) ==
    IF principal <= 0 \/ annualRate <= 0 \/ termYears <= 0 THEN 0
    ELSE LET monthlyRate == Frac(annualRate, PercentBase * MonthsPerYear)
             p == monthlyRate.num + monthlyRate.den
             q == monthlyRate.den
             numPayments == termYears * MonthsPerYear
             \* principal * r * (1+r)^n / ((1+r)^n - 1), with 1 + r = p / q
             payment == Frac(principal * monthlyRate.num * Pow(p, numPayments),
                             monthlyRate.den * (Pow(p, numPayments) - Pow(q, numPayments)))
         IN  MathRound(payment.num, payment.den)

\* LiabilityClasses.createDefaultLiability with all four arguments given;
\* id, name and createdAt, which no calculation reads, are left out
createDefaultLiability(liabilityType, principal, rate, termYears) ==
    [type |-> liabilityType,
     principal |-> principal,
     currentBalance |-> principal,
     rate |-> rate,
     termYears |-> termYears,
     monthlyPayment |-> calculateMonthlyPayment(principal, rate, termYears)]

\* the keys of LiabilityClasses.liabilityTypes
liabilityTypes == {"mortgage", "consumer", "auto", "business"}

\* AssetClasses.createDefaultAsset(assetType, value); id, name and createdAt are left out
createDefaultAsset(assetType, value) == [type |-> assetType, value |-> value]

-----------------------------------------------------------------------------
(* EventBus *)

\* what the model's handlers do when they are called: "log" returns, "fail" throws
Callbacks == {"log", "fail"}

throws(callback) == callback = "fail"

\* the function passed to on(): a callback itself (wrapper 0), or the onceWrapper that
\* the wrapper-th call of once() built around it
handlerOf(callback, wrapper) == [callback |-> callback, wrapper |-> wrapper]

\* new EventBus().  events is this.events; wrappers counts the onceWrappers built so far;
\* emitted, invoked and threw record the calls of emit since the last reset: the events,
\* the handlers called, whether an exception reached the emitter; calls[k] counts how
\* often the k-th onceWrapper has called its callback
newEventBus ==
    [events |-> <<>>, wrappers |-> 0, calls |-> <<>>,
     emitted |-> <<>>, invoked |-> <<>>, threw |-> FALSE]

\* this.events[event] || []
registered(bus, event) == IF event \in DOMAIN bus.events THEN bus.events[event] ELSE <<>>

\* EventBus.on(event, callback)
on(bus, event, callback) ==
    [bus EXCEPT !.events = [e \in DOMAIN @ \cup {event} |->
                               IF e = event THEN Append(registered(bus, event), callback)
                               ELSE @[e]]]

\* EventBus.off(event, callback): a new array without the callback
off(bus, event, callback) ==
    IF event \notin DOMAIN bus.events THEN bus
    ELSE [bus EXCEPT !.events[event] = SelectSeq(@, LAMBDA cb : cb # callback)]

\* onceWrapper(data): callback(data), and this.off(event, onceWrapper) if that returned
onceWrapper(bus, event, handler) ==
    LET called == [bus EXCEPT !.calls[handler.wrapper] = @ + 1]
    IN  IF throws(handler.callback) THEN called ELSE off(called, event, handler)

\* callback(data) in the try block of emit: what the call leaves of the bus
callHandler(bus, event, handler) ==
    LET entered == [bus EXCEPT !.invoked = Append(@, [event |-> event, handler |-> handler])]
    IN  IF handler.wrapper = 0 THEN entered ELSE onceWrapper(entered, event, handler)

\* mutant: no try around the call, the first exception ends the loop and reaches the emitter
RECURSIVE forEach_uncaught(_, _, _)
forEach_uncaught(bus, event, handlers) ==
    IF handlers = <<>> THEN bus
    ELSE IF throws(Head(handlers).callback)
         THEN [callHandler(bus, event, Head(handlers)) EXCEPT !.threw = TRUE]
         ELSE forEach_uncaught(callHandler(bus, event, Head(handlers)), event, Tail(handlers))

\* this.events[event].forEach(callback => { try { callback(data) } catch { ... } }) over
\* the array emit read; an exception is logged and the loop goes on
RECURSIVE forEach(_, _, _)
forEach(bus, event, handlers) ==
    IF handlers = <<>> THEN bus
    ELSE forEach(callHandler(bus, event, Head(handlers)), event, Tail(handlers))

\* mutant: emit without the try block
emit_uncaught(bus, event) ==
    LET entered == [bus EXCEPT !.emitted = Append(@, event)]
    IN  IF event \notin DOMAIN bus.events THEN entered
        ELSE forEach_uncaught(entered, event, bus.events[event])

\* EventBus.emit(event, data)
emit(bus, event) ==
    LET entered == [bus EXCEPT !.emitted = Append(@, event)]
    IN  IF event \notin DOMAIN bus.events THEN entered
        ELSE forEach(entered, event, bus.events[event])

\* EventBus.once(event, callback)
once(bus, event, callback) ==
    on([bus EXCEPT !.wrappers = @ + 1, !.calls = Append(@, 0)],
       event, handlerOf(callback, bus.wrappers + 1))

\* the bus as a caller of emit finds it: nothing emitted or invoked yet
listening(bus) == [bus EXCEPT !.emitted = <<>>, !.invoked = <<>>, !.threw = FALSE]

\* the events of the model
Events == {"portfolio:changed", "data:saved"}

InitBus ==
    /\ window = loadedWindow
    /\ cache = <<>>
    /\ heap = <<>>
    /\ inserted = <<>>
    /\ seen = <<>>
    /\ args = None
    /\ result = None
    /\ lastOp = "new"
    /\ app = None
    /\ storage = None
    /\ storageFull = FALSE
    /\ eventBus = newEventBus
    /\ dataManager = None

\* the bus makes a step: the call is recorded and nothing else changes
busStep(bus, op, event) ==
    /\ eventBus' = bus
    /\ lastOp' = op
    /\ args' = [event |-> event]
    /\ UNCHANGED <<window, cache, heap, inserted, seen, result, app, storage, storageFull,
                   dataManager>>

On ==
    \E event \in Events, callback \in Callbacks :
        /\ Len(registered(eventBus, event)) < MaxHandlers
        /\ busStep(on(listening(eventBus), event, handlerOf(callback, 0)), "on", event)

Off ==
    \E event \in Events, callback \in Callbacks :
        busStep(off(listening(eventBus), event, handlerOf(callback, 0)), "off", event)

Once ==
    \E event \in Events, callback \in Callbacks :
        /\ Len(registered(eventBus, event)) < MaxHandlers
        /\ eventBus.wrappers < MaxWrappers
        /\ busStep(once(listening(eventBus), event, callback), "once", event)

Emit ==
    \E event \in Events :
        /\ \A k \in DOMAIN eventBus.calls : eventBus.calls[k] < MaxCalls
        /\ busStep(emit(listening(eventBus), event), "emit", event)

NextBus == On \/ Off \/ Once \/ Emit

SpecBus == InitBus /\ [][NextBus]_vars

-----------------------------------------------------------------------------
(* DataManager *)

\* {...defaults, ...data}
spread(defaults, data) ==
    [f \in DOMAIN defaults \cup DOMAIN data |-> IF f \in DOMAIN data THEN data[f] ELSE defaults[f]]

\* DataManager.getDefaultData()
getDefaultData ==
    [portfolio |-> [assets |-> <<>>, liabilities |-> <<>>,
                    totalValue |-> 0, totalLiabilities |-> 0, netWorth |-> 0],
     settings |-> [horizonYears |-> 10, inflation |-> 6, showRealValues |-> FALSE,
                   currency |-> "RUB"],
     scenarios |-> defaultScenarios]

\* new DataManager(): this.defaultData = this.getDefaultData(); held records that the
\* component's portfolio, settings and scenarios are the objects of defaultData
newDataManager == [defaultData |-> getDefaultData, held |-> FALSE]

\* DataManager.mergeWithDefaults(data)
mergeWithDefaults(data) ==
    [portfolio |-> spread(dataManager.defaultData.portfolio, data.portfolio),
     settings |-> spread(dataManager.defaultData.settings, data.settings),
     scenarios |-> [returnRates |-> spread(dataManager.defaultData.scenarios.returnRates,
                                           data.scenarios.returnRates)]]

\* DataManager.loadData(): what the stored text parses to, merged with the defaults;
\* without stored text this.defaultData itself
dataManagerLoad(stored) ==
    IF stored # None THEN mergeWithDefaults(stored) ELSE dataManager.defaultData

-----------------------------------------------------------------------------
(* finCalcApp: the Alpine component *)

\* { assets: {}, liabilities: { pessimistic: [], base: [], optimistic: [] } }
emptyDetailed ==
    [assets |-> <<>>, liabilities |-> [pessimistic |-> <<>>, base |-> <<>>, optimistic |-> <<>>]]

\* the component as constructed
newApp ==
    [initialised |-> FALSE,
     portfolio |-> [assets |-> <<>>, liabilities |-> <<>>,
                    totalValue |-> 0, totalLiabilities |-> 0, netWorth |-> 0],
     settings |-> [horizonYears |-> 10, inflation |-> 6, showRealValues |-> FALSE],
     scenarios |-> defaultScenarios,
     projections |-> [pessimistic |-> <<>>, base |-> <<>>, optimistic |-> <<>>,
                      future |-> [pessimistic |-> [num |-> 0, den |-> 1],
                                  base |-> [num |-> 0, den |-> 1],
                                  optimistic |-> [num |-> 0, den |-> 1]],
                      growthRate |-> noGrowth,
                      riskScore |-> 1],
     activeTab |-> "portfolio",
     detailedProjections |-> emptyDetailed]

\* the component, the engine, the bus and the store as one value, threaded through a
\* handler; full records that the handler needs an object beyond MaxObjects, awaiting
\* counts the calls of saveData() suspended at their await
world ==
    [app |-> app, cache |-> cache, heap |-> heap, inserted |-> inserted, seen |-> seen,
     args |-> args, result |-> result, storage |-> storage,
     eventBus |-> listening(eventBus), dataManager |-> dataManager,
     full |-> FALSE, awaiting |-> 0]

\* eventBus.emit(event, data) called by the component or the data manager
appEmit(w, event) == [w EXCEPT !.eventBus = emit(@, event)]

\* mutant: the liabilities are not summed again
updatePortfolioValue_assetsOnly(portfolio) ==
    [portfolio EXCEPT !.totalValue = sumValues(portfolio.assets),
                      !.netWorth = sumValues(portfolio.assets) - portfolio.totalLiabilities]

\* finCalcApp.updatePortfolioValue()
updatePortfolioValue(portfolio) ==
    [portfolio EXCEPT !.totalValue = sumValues(portfolio.assets),
                      !.totalLiabilities = sumBalances(portfolio.liabilities),
                      !.netWorth = sumValues(portfolio.assets) - sumBalances(portfolio.liabilities)]

\* obj.future = ...; obj.growthRate = ...; obj.riskScore = ...: fields set on an object
setMetrics(obj, future, growthRate, riskScore) ==
    [f \in DOMAIN obj \cup {"future", "growthRate", "riskScore"} |->
        CASE f = "future" -> future
          [] f = "growthRate" -> growthRate
          [] f = "riskScore" -> riskScore
          [] OTHER -> obj[f]]

\* the metrics calculate() asks the engine for
metricsFor(portfolio, projections, settings) ==
    IF Len(portfolio.liabilities) > 0
    THEN calculateMetricsWithLiabilities(portfolio, projections, settings)
    ELSE calculateMetrics(portfolio, projections, settings)

\* metrics.futureValue || metrics.futureNetWorth
futureOf(metrics) ==
    IF "futureValue" \in DOMAIN metrics THEN metrics.futureValue ELSE metrics.futureNetWorth

\* metrics.riskScore || 1
riskScoreOf(metrics) ==
    IF "riskScore" \in DOMAIN metrics /\ metrics.riskScore # 0 THEN metrics.riskScore ELSE 1

\* finCalcApp.calculate(): this.projections is the object the engine returned, and the
\* three assignments that follow write to that object before the copy is taken
calculate(w0) ==
    Let(w0, LAMBDA w :
    Let(updatePortfolioValue(w.app.portfolio), LAMBDA portfolio :
    Let(projectionsCall([cache |-> w.cache, heap |-> w.heap,
                         inserted |-> w.inserted, seen |-> w.seen],
                        portfolio, w.app.scenarios, w.app.settings), LAMBDA r :
        IF w.full \/ r.full THEN [w EXCEPT !.full = TRUE]
        ELSE
    Let(metricsFor(portfolio, r.heap[r.result], w.app.settings), LAMBDA metrics :
    Let(setMetrics(r.heap[r.result], futureOf(metrics), metrics.growthRate, riskScoreOf(metrics)),
        LAMBDA updated :
            [w EXCEPT !.app.portfolio = portfolio,
                      !.app.projections = updated,
                      !.cache = r.cache,
                      !.heap = [r.heap EXCEPT ![r.result] = updated],
                      !.inserted = r.inserted,
                      !.seen = r.seen,
                      !.result = r.result,
                      !.args = [portfolio |-> portfolio, scenarios |-> w.app.scenarios,
                                settings |-> w.app.settings],
                      !.eventBus = emit(@, "projections:updated")])))))

\* the methods of class FinancialEngine
engineMethods ==
    {"calculateProjections", "calculateScenarioProjection", "groupAssetsByType",
     "calculateAssetTypeValue", "calculateInflationAdjustedReturn", "calculateMetrics",
     "calculateMaxDrawdown", "calculateRiskScore", "calculateDiversification", "getCacheKey",
     "clearCache", "getCacheSize", "applyModifications", "sellAsset", "buyAsset",
     "rebalancePortfolio", "calculateLiabilitiesValue", "calculateMetricsWithLiabilities"}

\* finCalcApp.calculateDetailedProjections(): without assets, without the engine method,
\* and when the call throws, the component holds the empty detailed projections; the
\* engine has no method of that name to call
calculateDetailedProjections(w) ==
    IF Len(w.app.portfolio.assets) = 0 THEN [w EXCEPT !.app.detailedProjections = emptyDetailed]
    ELSE IF "calculateDetailedProjections" \in engineMethods THEN w
    ELSE [w EXCEPT !.app.detailedProjections = emptyDetailed]

\* if (this.activeTab === 'assets') this.calculateDetailedProjections()
onAssetsTab(w) == IF w.app.activeTab = "assets" THEN calculateDetailedProjections(w) ELSE w

\* DataManager.saveData(data): the store holds the text of {portfolio, settings,
\* scenarios} and data:saved is emitted; when setItem throws, data:error is emitted
\* instead and false is returned
dataManagerSaveData(w) ==
    IF storageFull THEN appEmit(w, "data:error")
    ELSE appEmit([w EXCEPT !.storage = [portfolio |-> w.app.portfolio,
                                        settings |-> w.app.settings,
                                        scenarios |-> w.app.scenarios]], "data:saved")

\* finCalcApp.saveData() up to its await: the call of dataManager.saveData(data), whose
\* promise is fulfilled whatever it returns
saveData(w0) ==
    Let(w0, LAMBDA w : [dataManagerSaveData(w) EXCEPT !.awaiting = @ + 1])

\* finCalcApp.saveData() after its await, once per suspended call: the returned value
\* is dropped and data:saved is emitted
RECURSIVE resume(_)
resume(w) ==
    IF w.awaiting = 0 THEN w
    ELSE resume([appEmit(w, "data:saved") EXCEPT !.awaiting = @ - 1])

\* eventBus.emit('portfolio:changed', this.portfolio): the bus calls the listener that
\* setupEventListeners registered, calculate() and saveData()
portfolioChanged(w) == saveData(calculate(appEmit(w, "portfolio:changed")))

\* finCalcApp.updateScenarioSettings()
updateScenarioSettings(w0) ==
    Let(w0, LAMBDA w :
        saveData(onAssetsTab(calculate([w EXCEPT !.app.scenarios.returnRates =
                                        returnRatesFor(w.app.settings.inflation)]))))

\* the handler ends in the world w0 and the suspended calls of saveData() run to their
\* end: every variable takes its value there.  What the handler assigned to the fields
\* of this.portfolio, this.settings and this.scenarios it assigned to defaultData if
\* these are its objects
commit(w0, op) ==
    \E w \in {IF w0.full THEN w0 ELSE resume(w0)} :
        /\ ~w.full
        /\ eventBus' = w.eventBus
        /\ dataManager' =
               IF w.dataManager.held
               THEN [w.dataManager EXCEPT !.defaultData =
                        [f \in DOMAIN @ |-> w.app[f]]]
               ELSE w.dataManager
        /\ app' = w.app
        /\ cache' = w.cache
        /\ heap' = w.heap
        /\ inserted' = w.inserted
        /\ seen' = w.seen
        /\ args' = w.args
        /\ result' = w.result
        /\ storage' = w.storage
        /\ lastOp' = op
        /\ UNCHANGED <<window, storageFull>>

\* finCalcApp.loadData(): the component takes the objects DataManager.loadData()
\* returned, which are those of defaultData when nothing is stored
loadData(w) ==
    LET data == dataManagerLoad(w.storage)
    IN  appEmit([w EXCEPT !.app.portfolio = updatePortfolioValue(data.portfolio),
                          !.app.settings = data.settings,
                          !.app.scenarios = data.scenarios,
                          !.dataManager.held = (w.storage = None)], "data:loaded")

\* finCalcApp.setupEventListeners()
setupEventListeners(w) ==
    [w EXCEPT !.eventBus =
        on(on(on(on(on(@, "portfolio:changed", handlerOf("portfolioChanged", 0)),
                    "settings:changed", handlerOf("settingsChanged", 0)),
                 "scenarios:changed", handlerOf("scenariosChanged", 0)),
              "projections:updated", handlerOf("updateCharts", 0)),
           "data:error", handlerOf("logError", 0))]

\* finCalcApp.init(): loadData, setupEventListeners, calculate
init ==
    /\ ~app.initialised
    /\ commit(calculate(setupEventListeners(
                 loadData([world EXCEPT !.app.initialised = TRUE]))), "init")

\* finCalcApp.addAsset(assetType)
addAsset(assetType) ==
    /\ app.initialised
    /\ getAssetInfo(assetType) # None
    /\ Len(app.portfolio.assets) < MaxAssets
    /\ LET pushed == [world EXCEPT !.app.portfolio.assets =
                                      Append(@, createDefaultAsset(assetType, 0))]
       IN  commit(portfolioChanged(onAssetsTab(pushed)), "addAsset")

\* finCalcApp.removeAsset(index)
removeAsset(index) ==
    /\ app.initialised
    /\ index >= 0 /\ index < Len(app.portfolio.assets)
    /\ LET spliced == [world EXCEPT !.app.portfolio.assets =
                                       SubSeq(@, 1, index) \o SubSeq(@, index + 2, Len(@))]
       IN  commit(portfolioChanged(onAssetsTab(spliced)), "removeAsset")

\* finCalcApp.updateAssetValue(index, "value", value)
updateAssetValue(index, value) ==
    /\ app.initialised
    /\ index + 1 \in DOMAIN app.portfolio.assets
    /\ LET assigned == [world EXCEPT !.app.portfolio.assets[index + 1].value = value]
       IN  commit(saveData(onAssetsTab(calculate(assigned))), "updateAssetValue")

\* finCalcApp.addLiability(liabilityType, principal, rate, termYears)
addLiability(liabilityType, principal, rate, termYears) ==
    /\ app.initialised
    /\ liabilityType \in liabilityTypes
    /\ Len(app.portfolio.liabilities) < MaxLiabilities
    /\ LET pushed == [world EXCEPT !.app.portfolio.liabilities =
                        Append(@, createDefaultLiability(liabilityType, principal, rate, termYears))]
       IN  commit(onAssetsTab(portfolioChanged(saveData(calculate(pushed)))), "addLiability")

\* finCalcApp.removeLiability(index)
removeLiability(index) ==
    /\ app.initialised
    /\ index >= 0 /\ index < Len(app.portfolio.liabilities)
    /\ LET spliced == [world EXCEPT !.app.portfolio.liabilities =
                                       SubSeq(@, 1, index) \o SubSeq(@, index + 2, Len(@))]
       IN  commit(onAssetsTab(portfolioChanged(saveData(calculate(spliced)))), "removeLiability")

\* finCalcApp.updateLiabilityValue(index, field, value)
updateLiabilityValue(index, field, value) ==
    /\ app.initialised
    /\ index + 1 \in DOMAIN app.portfolio.liabilities
    /\ LET assigned == [app.portfolio.liabilities[index + 1] EXCEPT ![field] = value]
           liability ==
               IF field \in {"principal", "rate", "termYears"}
               THEN [assigned EXCEPT
                       !.monthlyPayment = calculateMonthlyPayment(
                           assigned.principal, assigned.rate,
                           IF assigned.termYears # 0 THEN assigned.termYears ELSE 1),
                       !.currentBalance = assigned.principal]
               ELSE assigned
           updated == [world EXCEPT !.app.portfolio.liabilities[index + 1] = liability]
       IN  commit(onAssetsTab(saveData(calculate(updated))), "updateLiabilityValue")

\* finCalcApp.updateSettings(field, value)
updateSettings(field, value) ==
    /\ app.initialised
    /\ LET assigned == [world EXCEPT !.app.settings[field] = value]
           done == IF field = "inflation" THEN updateScenarioSettings(assigned)
                   ELSE IF field = "showRealValues" THEN assigned
                   ELSE onAssetsTab(calculate(assigned))
       IN  commit(saveData(done), "updateSettings")

\* finCalcApp.switchTab(tabName)
switchTab(tabName) ==
    /\ app.initialised
    /\ LET switched == [world EXCEPT !.app.activeTab = tabName]
           shown == IF tabName = "assets" THEN calculateDetailedProjections(switched)
                    ELSE switched
       IN  commit(saveData(shown), "switchTab")

-----------------------------------------------------------------------------
(* The application in use *)

\* the types offered by the "add asset" buttons of the model
AppAssetTypes == {"stocks", "cash"}

\* the values typed into an asset's value field
AppValues == {0, 100}

\* the loans entered in the "add liability" dialog: principal, rate, termYears
AppLoans == {<<60, 1200, 2>>}

\* the principals typed into a liability's principal field
AppPrincipals == {30, 60}

\* the inflation rates typed into the settings
AppInflations == {6, 7}

\* what an earlier session left in the store: a short horizon, and a portfolio that is
\* empty or holds one asset
StoredPortfolios == {withTotals(<<>>, <<>>), withTotals(<<createDefaultAsset("stocks", 100)>>, <<>>)}

StoredData ==
    {[portfolio |-> p,
      settings |-> [getDefaultData.settings EXCEPT !.horizonYears = h],
      scenarios |-> defaultScenarios] : p \in StoredPortfolios, h \in 0..1}

Init ==
    /\ window = loadedWindow
    /\ cache = <<>>
    /\ heap = <<>>
    /\ inserted = <<>>
    /\ seen = <<>>
    /\ args = None
    /\ result = None
    /\ lastOp = "new"
    /\ app = newApp
    /\ storage \in StoredData
    /\ storageFull = FALSE
    /\ eventBus = newEventBus
    /\ dataManager = newDataManager

InitApp == init

AddAsset == \E t \in AppAssetTypes : addAsset(t)

RemoveAsset == \E i \in 0..(MaxAssets - 1) : removeAsset(i)

\* a value other than 0 is entered while the horizon is within the model's bound
UpdateAssetValue ==
    \E i \in 0..(MaxAssets - 1), v \in AppValues :
        /\ v = 0 \/ app.settings.horizonYears <= MaxHorizon
        /\ updateAssetValue(i, v)

AddLiability == \E loan \in AppLoans : addLiability("mortgage", loan[1], loan[2], loan[3])

RemoveLiability == \E i \in 0..(MaxLiabilities - 1) : removeLiability(i)

UpdateLiabilityValue ==
    \E i \in 0..(MaxLiabilities - 1), pr \in AppPrincipals : updateLiabilityValue(i, "principal", pr)

UpdateSettings ==
    \/ \E h \in 0..MaxHorizon : updateSettings("horizonYears", h)
    \/ \E i \in AppInflations : updateSettings("inflation", i)
    \/ \E b \in BOOLEAN : updateSettings("showRealValues", b)

Next ==
    \/ InitApp
    \/ AddAsset
    \/ RemoveAsset
    \/ UpdateAssetValue
    \/ AddLiability
    \/ RemoveLiability
    \/ UpdateLiabilityValue
    \/ UpdateSettings

Spec == Init /\ [][Next]_vars

-----------------------------------------------------------------------------
(* The application used to enter and edit loans *)

\* the edits typed into the fields of a liability: field and value
LiabilityEdits ==
    {<<"principal", 30>>, <<"principal", -10>>, <<"termYears", 0>>, <<"termYears", 1>>,
     <<"currentBalance", 100>>, <<"currentBalance", 0>>, <<"monthlyPayment", 1>>}

EditLiability ==
    \E i \in 0..(MaxLiabilities - 1), edit \in LiabilityEdits :
        updateLiabilityValue(i, edit[1], edit[2])

NextLoans == InitApp \/ AddLiability \/ RemoveLiability \/ EditLiability

SpecLoans == Init /\ [][NextLoans]_vars

-----------------------------------------------------------------------------
(* The application with its two tabs *)

SwitchTab == \E tabName \in {"portfolio", "assets"} : switchTab(tabName)

NextTabs == InitApp \/ AddAsset \/ RemoveAsset \/ UpdateAssetValue \/ SwitchTab

SpecTabs == Init /\ [][NextTabs]_vars

-----------------------------------------------------------------------------
(* The application on a new device: nothing is stored *)

InitDefaults ==
    /\ window = loadedWindow
    /\ cache = <<>>
    /\ heap = <<>>
    /\ inserted = <<>>
    /\ seen = <<>>
    /\ args = None
    /\ result = None
    /\ lastOp = "new"
    /\ app = newApp
    /\ storage = None
    /\ storageFull = FALSE
    /\ eventBus = newEventBus
    /\ dataManager = newDataManager

\* DataManager.clearData()
ClearData ==
    /\ storage' = None
    /\ eventBus' = emit(listening(eventBus), "data:cleared")
    /\ result' = TRUE
    /\ lastOp' = "clearData"
    /\ UNCHANGED <<window, cache, heap, inserted, seen, args, app, storageFull, dataManager>>

\* DataManager.loadData()
LoadData ==
    /\ result' = dataManagerLoad(storage)
    /\ lastOp' = "loadData"
    /\ UNCHANGED <<window, cache, heap, inserted, seen, args, app, storage, storageFull,
                   eventBus, dataManager>>

NextDefaults ==
    \/ InitApp
    \/ AddAsset
    \/ RemoveAsset
    \/ UpdateAssetValue
    \/ UpdateSettings
    \/ ClearData
    \/ LoadData

SpecDefaults == InitDefaults /\ [][NextDefaults]_vars

-----------------------------------------------------------------------------
(* The application while the store runs out of room *)

\* localStorage.setItem starts or stops throwing: the quota of the origin is used up by
\* another page, or freed
StorageFills ==
    /\ storageFull' = ~storageFull
    /\ lastOp' = "storage"
    /\ UNCHANGED <<window, cache, heap, inserted, seen, args, result, app, storage,
                   eventBus, dataManager>>

NextSave == InitApp \/ AddAsset \/ RemoveAsset \/ UpdateAssetValue \/ StorageFills

SpecSave == Init /\ [][NextSave]_vars

-----------------------------------------------------------------------------
(* The amortization formulas on any numbers, valid or not *)

AnyPrincipals == {-10, 0, 10}

AnyRates == {-2400, -1200, 0, 1200}

AnyTerms == {-1, 0, 1, 2}

AnyLiabilities ==
    {[id |-> "l", type |-> "mortgage", principal |-> pr, rate |-> rt, termYears |-> tm,
      currentBalance |-> pr] : pr \in AnyPrincipals, rt \in AnyRates, tm \in AnyTerms}

InitAnyLoan ==
    /\ app = None
    /\ storage = None
    /\ storageFull = FALSE
    /\ eventBus = None
    /\ dataManager = None
    /\ window = loadedWindow
    /\ cache = <<>>
    /\ heap = <<>>
    /\ inserted = <<>>
    /\ seen = <<>>
    /\ args \in [liability : AnyLiabilities, years : (-1)..MaxYears]
    /\ result = None
    /\ lastOp = "new"

MonthlyPayment ==
    /\ lastOp = "new"
    /\ result' = calculateMonthlyPayment(args.liability.principal, args.liability.rate,
                                          args.liability.termYears)
    /\ lastOp' = "calculateMonthlyPayment"
    /\ UNCHANGED <<window, cache, heap, inserted, seen, args, app, storage,
                 storageFull, eventBus, dataManager>>

NextAnyLoan == MonthlyPayment \/ RemainingBalance

SpecAnyLoan == InitAnyLoan /\ [][NextAnyLoan]_vars

-----------------------------------------------------------------------------
(* The metrics of the engine, over portfolios whose cached totals may be stale *)

MetricAssets ==
    {<<>>,
     <<[id |-> "a1", type |-> "stocks", value |-> 100]>>,
     <<[id |-> "a3", type |-> "cash", value |-> 100]>>,
     <<[id |-> "a4", type |-> "gold", value |-> 100]>>,
     <<[id |-> "a7", type |-> "stocks", value |-> 0]>>,
     <<[id |-> "a5", type |-> "bonds"]>>,
     <<[id |-> "a1", type |-> "stocks", value |-> 100],
       [id |-> "a3", type |-> "cash", value |-> 100]>>}

MetricLiabilities ==
    {<<>>,
     <<[id |-> "l1", type |-> "mortgage", principal |-> 60, rate |-> 1200, termYears |-> 2,
        currentBalance |-> 60]>>,
     <<[id |-> "l4", type |-> "mortgage", principal |-> 300, rate |-> 1200, termYears |-> 2,
        currentBalance |-> 300]>>}

\* values the fields totalValue and totalLiabilities may hold besides the fresh ones
CachedTotals == {-100, 0, 100, 300}

\* a portfolio whose cached fields were last written with these totals
withCached(portfolio, totalValue, totalLiabilities) ==
    [portfolio EXCEPT !.totalValue = totalValue,
                      !.totalLiabilities = totalLiabilities,
                      !.netWorth = totalValue - totalLiabilities]

MetricPortfolios ==
    {withCached(withTotals(a, l), tv, tl) :
        a \in MetricAssets, l \in MetricLiabilities,
        tv \in CachedTotals, tl \in {0}} \cup
    {withTotals(a, l) : a \in MetricAssets, l \in MetricLiabilities}

MetricSettings ==
    [horizonYears : (-1)..MaxHorizon, inflation : {6}, showRealValues : {FALSE}]

\* volatilities in percent, as fractions
Volatilities == {[num |-> n, den |-> 1] : n \in {-40, 0, 10, 30, 50, 1000}}

\* the projections are the ones the engine computes for the portfolio and the settings,
\* with the asset registry loaded or absent
InitMetrics ==
    /\ app = None
    /\ storage = None
    /\ storageFull = FALSE
    /\ eventBus = None
    /\ dataManager = None
    /\ window \in {w \in Windows : w.liabilityClasses}
    /\ cache = <<>>
    /\ heap = <<>>
    /\ inserted = <<>>
    /\ seen = <<>>
    /\ \E p \in MetricPortfolios, s \in MetricSettings :
           args = [portfolio |-> p, settings |-> s,
                   projections |-> newProjections(p, defaultScenarios, s),
                   volatility |-> None]
    /\ result = None
    /\ lastOp = "new"

Metrics ==
    /\ lastOp = "new"
    /\ result' = calculateMetrics(args.portfolio, args.projections, args.settings)
    /\ lastOp' = "calculateMetrics"
    /\ UNCHANGED <<window, cache, heap, inserted, seen, args, app, storage,
                 storageFull, eventBus, dataManager>>

MetricsWithLiabilities ==
    /\ lastOp = "new"
    /\ result' = calculateMetricsWithLiabilities(args.portfolio, args.projections, args.settings)
    /\ lastOp' = "calculateMetricsWithLiabilities"
    /\ UNCHANGED <<window, cache, heap, inserted, seen, args, app, storage,
                 storageFull, eventBus, dataManager>>

RiskScore ==
    /\ lastOp = "new"
    /\ \E volatility \in Volatilities :
           /\ args' = [args EXCEPT !.volatility = volatility]
           /\ result' = calculateRiskScore(args.portfolio, volatility)
    /\ lastOp' = "calculateRiskScore"
    /\ UNCHANGED <<window, cache, heap, inserted, seen, app, storage,
                 storageFull, eventBus, dataManager>>

NextMetrics == Metrics \/ MetricsWithLiabilities \/ RiskScore

SpecMetrics == InitMetrics /\ [][NextMetrics]_vars

-----------------------------------------------------------------------------
(* The maximum drawdown, over any series of non-negative values *)

NominalValues == {0, 50, 100, 200}

Series == SeqsUpTo({[nominal |-> v] : v \in NominalValues}, MaxYears + 1)

InitDrawdown ==
    /\ app = None
    /\ storage = None
    /\ storageFull = FALSE
    /\ eventBus = None
    /\ dataManager = None
    /\ window = loadedWindow
    /\ cache = <<>>
    /\ heap = <<>>
    /\ inserted = <<>>
    /\ seen = <<>>
    /\ args \in [projections : Series]
    /\ result = None
    /\ lastOp = "new"

MaxDrawdown ==
    /\ lastOp = "new"
    /\ result' = calculateMaxDrawdown(args.projections)
    /\ lastOp' = "calculateMaxDrawdown"
    /\ UNCHANGED <<window, cache, heap, inserted, seen, args, app, storage,
                 storageFull, eventBus, dataManager>>

SpecDrawdown == InitDrawdown /\ [][MaxDrawdown]_vars

-----------------------------------------------------------------------------
(* Claims about one projection (SpecProjection) *)

ScenarioSet == {"pessimistic", "base", "optimistic"}

\* the sum of the asset values, as the portfolio's totalValue is defined
RECURSIVE AssetTotal(_, _)
AssetTotal(assets, n) ==
    IF n = 0 THEN 0
    ELSE AssetTotal(assets, n - 1) +
         (IF "value" \in DOMAIN assets[n] THEN assets[n].value ELSE 0)

RECURSIVE SumOver(_, _)
SumOver(f, S) ==
    IF S = {} THEN 0
    ELSE LET x == CHOOSE y \in S : TRUE IN f[x] + SumOver(f, S \ {x})

TypesOf(assets) == {assets[i].type : i \in DOMAIN assets}

\* C5: every series has horizonYears + 1 points and the point at index i is year i
\* (sequences count from 1, so the point of year i is element i + 1)
C5_SeriesShape ==
    Projected =>
        \A s \in ScenarioSet :
            /\ Len(returned[s]) = args.settings.horizonYears + 1
            /\ \A i \in 0..args.settings.horizonYears : returned[s][i + 1].year = i

C5_Witness ==
    /\ Projected
    /\ args.settings.horizonYears = 2
    /\ Len(args.portfolio.assets) = 2
    /\ Len(returned.base) = 3
    /\ returned.base[3].year = 2

\* C6: with horizonYears = 0 the only point of every scenario has nominal equal to the
\* sum of the asset values and real equal to netWorth
C6_YearZero ==
    (Projected /\ args.settings.horizonYears = 0) =>
        \A s \in ScenarioSet :
            /\ Len(returned[s]) = 1
            /\ returned[s][1].nominal = AssetTotal(args.portfolio.assets, Len(args.portfolio.assets))
            /\ returned[s][1].nominal = args.portfolio.totalValue
            /\ returned[s][1].real.num = returned[s][1].netWorth * returned[s][1].real.den

C6_Witness ==
    /\ Projected
    /\ args.settings.horizonYears = 0
    /\ args.settings.inflation = 6
    /\ Len(args.portfolio.assets) = 2
    /\ args.portfolio.liabilities # <<>>
    /\ returned.optimistic[1].nominal = 300
    /\ returned.optimistic[1].real = [num |-> 240, den |-> 1]

\* C7: in every YearPoint netWorth = nominal - liabilities, and nominal is the sum of
\* the breakdown, which has one entry per asset type of the portfolio
C7_PointIdentities ==
    Projected =>
        \A s \in ScenarioSet : \A i \in DOMAIN returned[s] :
            LET pt == returned[s][i] IN
            /\ pt.netWorth = pt.nominal - pt.liabilities
            /\ DOMAIN pt.breakdown = TypesOf(args.portfolio.assets)
            /\ pt.nominal = SumOver(pt.breakdown, DOMAIN pt.breakdown)

C7_Witness ==
    /\ Projected
    /\ Cardinality(TypesOf(args.portfolio.assets)) = 2
    /\ args.settings.horizonYears >= 1
    /\ returned.base[2].liabilities > 0
    /\ returned.base[2].netWorth < returned.base[2].nominal
    /\ Cardinality(DOMAIN returned.base[2].breakdown) = 2

\* the portfolios C8 is about: assets of one type, no liabilities
OneTypeNoDebt ==
    /\ Projected
    /\ args.portfolio.liabilities = <<>>
    /\ Cardinality(TypesOf(args.portfolio.assets)) = 1

TheType == CHOOSE t \in TypesOf(args.portfolio.assets) : TRUE

\* C8 as stated: nominal(y) = total * (1 + r/100)^y with r read from the rate table
\* that was passed to calculateProjections
C8_TableRate ==
    (OneTypeNoDebt /\ TheType \in DOMAIN args.scenarios.returnRates) =>
        \A s \in ScenarioSet : \A y \in 0..args.settings.horizonYears :
            returned[s][y + 1].nominal =
                AssetTotal(args.portfolio.assets, Len(args.portfolio.assets)) *
                    Pow(100 + args.scenarios.returnRates[TheType][s], y)

\* the rate the engine applies: inflation plus the registry's adjustment of the type,
\* the adjustment being 0 for a type the registry lacks or when no registry is loaded
RegistryRate(t, s) ==
    args.settings.inflation +
        (IF window.assetClasses /\ t \in {"stocks", "bonds", "cash", "realty"}
         THEN assetTypes[t].inflationAdjustment[s] ELSE 0)

\* C8 amended: nominal(y) = total * (1 + r/100)^y with r = inflation + the registry's
\* adjustment for the type and scenario; the rate table passed in is not read
C8_RegistryRate ==
    OneTypeNoDebt =>
        \A s \in ScenarioSet : \A y \in 0..args.settings.horizonYears :
            returned[s][y + 1].nominal =
                AssetTotal(args.portfolio.assets, Len(args.portfolio.assets)) *
                    Pow(100 + RegistryRate(TheType, s), y)

\* one stocks asset of 100, inflation 7 so that the base return is 12%, year 1: 112
C8_Witness ==
    /\ OneTypeNoDebt
    /\ window.assetClasses
    /\ args.portfolio.assets = <<[id |-> "a1", type |-> "stocks", value |-> 100]>>
    /\ args.scenarios = defaultScenarios
    /\ args.settings.inflation = 7
    /\ args.settings.horizonYears = 1
    /\ returned.base[2].nominal = 112 * Scale(1)

\* C9: the liabilities of year y are the same in the three series of one call
C9_LiabilitiesScenarioInvariant ==
    Projected =>
        \A y \in 0..args.settings.horizonYears :
            /\ returned.pessimistic[y + 1].liabilities = returned.base[y + 1].liabilities
            /\ returned.optimistic[y + 1].liabilities = returned.base[y + 1].liabilities

C9_Witness ==
    /\ Projected
    /\ window.liabilityClasses
    /\ args.portfolio.liabilities # <<>>
    /\ args.settings.horizonYears >= 1
    /\ returned.base[2].liabilities > 0
    /\ returned.base[2].liabilities = returned.optimistic[2].liabilities

\* the base return rate the engine applies to a type
BaseRate(type) ==
    calculateInflationAdjustedReturn(args.settings.inflation, inflationAdjustmentOf(type, "base"))

\* no liabilities, no negative asset value, and no type present with a negative base rate
GrowingPortfolio ==
    /\ args.portfolio.liabilities = <<>>
    /\ \A i \in DOMAIN args.portfolio.assets :
           /\ valueOrZero(args.portfolio.assets[i]) >= 0
           /\ BaseRate(args.portfolio.assets[i].type) >= 0

\* C23: for a portfolio without liabilities and with non-negative asset values, if every
\* per-type base return rate is >= 0 then the base-scenario nominal value does not fall
\* from one year to the next: nominal(y) <= nominal(y + 1) for 0 <= y < horizonYears.
C23_BaseNonDecreasing ==
    (Projected /\ GrowingPortfolio) =>
        \A y \in 0..(args.settings.horizonYears - 1) :
            returned.base[y + 1].nominal * Scale(y + 1)
                <= returned.base[y + 2].nominal * Scale(y)

C23_Witness ==
    /\ Projected
    /\ GrowingPortfolio
    /\ args.settings.inflation < 0
    /\ args.settings.horizonYears = MaxHorizon
    /\ sumValues(args.portfolio.assets) > 0
    /\ returned.base[1].nominal * Scale(MaxHorizon)
           < returned.base[MaxHorizon + 1].nominal

-----------------------------------------------------------------------------
(* Claims about the remaining balance (SpecBalance) *)

\* C10: for a valid liability the balance after 0 years is the principal and the
\* balance after termYears or more years is 0
C10_BalanceEnds ==
    lastOp = "calculateRemainingBalance" =>
        /\ args.years = 0 => result = args.liability.principal
        /\ args.years >= args.liability.termYears => result = 0

C10_Witness ==
    /\ lastOp = "calculateRemainingBalance"
    /\ args.liability.termYears = 2
    /\ args.liability.currentBalance # args.liability.principal
    /\ args.years = 2
    /\ result = 0

BalanceComputed == lastOp = "calculateRemainingBalance"

\* the balances of the years after args.years, up to the term, are within 0..result
LaterBalancesBelow ==
    \A y2 \in (args.years + 1)..args.liability.termYears :
        /\ 0 <= calculateRemainingBalance(args.liability, y2)
        /\ calculateRemainingBalance(args.liability, y2) <= result

MidTerm == 0 < args.years /\ args.years < args.liability.termYears

-----------------------------------------------------------------------------
(* Claims about the formulas on invalid parameters (SpecAnyLoan) *)

\* C12: for any principal, rate and termYears, non-positive ones included,
\* calculateMonthlyPayment returns 0 when one of the three is <= 0, and
\* calculateRemainingBalance returns a number, never NaN, that is principal, 0 or a value
\* between them, for every elapsed year.
C12_SafeDefaults ==
    /\ lastOp = "calculateMonthlyPayment" =>
            ((args.liability.principal <= 0 \/ args.liability.rate <= 0 \/
                 args.liability.termYears <= 0) => result = 0)
    /\ lastOp = "calculateRemainingBalance" =>
            /\ ~isNaN(result)
            /\ \/ (0 <= result /\ result <= args.liability.principal)
               \/ (args.liability.principal <= result /\ result <= 0)

-----------------------------------------------------------------------------
(* Claims about the memoization (SpecEngine) *)

CacheSize == Cardinality(DOMAIN cache)

ArgsFingerprint == Fingerprint(args.portfolio, args.scenarios, args.settings)

\* C1: a call whose arguments are structurally identical to those of an earlier call,
\* with no clearCache in between, returns the object the earlier call returned, and the
\* cache holds one entry per distinct structure called
C1_Idempotent ==
    lastOp = "calculateProjections" =>
        /\ ArgsFingerprint \in DOMAIN seen
        /\ result = seen[ArgsFingerprint]
        /\ CacheSize = Cardinality(DOMAIN seen)

\* a hit whose arguments are another object than the one the entry was computed from:
\* without the liability registry the cached series show the first caller's stored
\* balance (60), the second caller's is 30
C1_Witness ==
    /\ lastOp = "calculateProjections"
    /\ ~window.liabilityClasses
    /\ args.portfolio.assets # <<>>
    /\ args.portfolio.liabilities # <<>>
    /\ args.portfolio.liabilities[1].currentBalance = 30
    /\ heap[result].base[1].liabilities = 60
    /\ result = seen[ArgsFingerprint]
    /\ result < Len(heap)
    /\ CacheSize = Len(heap)

\* C3: what a call returns, hit or miss, is what a computation without the cache
\* yields for the arguments of that call
C3_Transparent ==
    lastOp = "calculateProjections" =>
        /\ heap[result].pessimistic =
              calculateScenarioProjection(args.portfolio, args.scenarios, "pessimistic", args.settings)
        /\ heap[result].base =
              calculateScenarioProjection(args.portfolio, args.scenarios, "base", args.settings)
        /\ heap[result].optimistic =
              calculateScenarioProjection(args.portfolio, args.scenarios, "optimistic", args.settings)

\* every entry of the cache is kept, under its key and with its object, by the step
EntriesKept ==
    /\ Cardinality(DOMAIN cache') >= Cardinality(DOMAIN cache)
    /\ \A k \in DOMAIN cache : k \in DOMAIN cache' /\ cache'[k] = cache[k]

\* C4 as stated: over any sequence of operations the number of entries never decreases
\* and an entry once inserted stays retrievable under its key
C4_InsertOnly == [][EntriesKept]_vars

\* C4 amended: every operation but clearCache keeps all entries; clearCache, the one
\* explicit invalidation, empties the cache
C4_InsertOnlyUntilCleared ==
    [][IF lastOp' = "clearCache" THEN DOMAIN cache' = {} ELSE EntriesKept]_vars

\* a hit on the first of three entries
C4_Witness ==
    /\ lastOp = "calculateProjections"
    /\ CacheSize = 3
    /\ result = 1

-----------------------------------------------------------------------------
(* Claims about the application (Spec) *)

\* C2: callers do not mutate cached projections: whatever handlers of the application have
\* run, each object the engine cache holds under a key has exactly the content it had when
\* calculateProjections stored it, no field added and none changed.
C2_CachedUnmutated == \A k \in DOMAIN cache : heap[cache[k]] = inserted[cache[k]]

\* the cached totals of a portfolio agree with its lists
TotalsFresh(portfolio) ==
    /\ portfolio.totalValue = sumValues(portfolio.assets)
    /\ portfolio.totalLiabilities = sumBalances(portfolio.liabilities)
    /\ portfolio.netWorth = portfolio.totalValue - portfolio.totalLiabilities

\* C15: once the application is initialised, after every completed operation the cached
\* totals are fresh: totalValue is the sum of the asset values, totalLiabilities the sum
\* of the liabilities' current balances and netWorth their difference; and the portfolio
\* calculate() hands to the engine already carries the recomputed totals.
C15_TotalsFresh ==
    app.initialised =>
        /\ TotalsFresh(app.portfolio)
        /\ args # None => TotalsFresh(args.portfolio)

C15_Witness ==
    /\ app.initialised
    /\ lastOp = "addLiability"
    /\ app.portfolio.totalValue > 0
    /\ app.portfolio.totalLiabilities > 0
    /\ app.portfolio.netWorth = app.portfolio.totalValue - app.portfolio.totalLiabilities
    /\ args.portfolio = app.portfolio

\* C20: calculateMetricsWithLiabilities has the shape of calculateMetrics, riskScore
\* included, so for a portfolio with at least one liability the risk score the application
\* holds after calculate() is the engine's risk score for that portfolio and the volatility
\* of its metrics, not a fixed default.
C20_RiskScoreStored ==
    (app.initialised /\ app.portfolio.liabilities # <<>>) =>
        LET metrics == metricsFor(app.portfolio, app.projections, app.settings)
        IN  /\ "riskScore" \in DOMAIN metrics
            /\ app.projections.riskScore = calculateRiskScore(app.portfolio, metrics.volatility)

\* C26: the projections on display are never stale: once the application is initialised,
\* after every completed operation the three series it holds are what the engine computes
\* for the current portfolio and settings, whatever the engine cache holds from earlier.
C26_ProjectionsFresh ==
    app.initialised =>
        \A s \in {"pessimistic", "base", "optimistic"} :
            app.projections[s] =
                calculateScenarioProjection(app.portfolio, app.scenarios, s, app.settings)

\* a change of settings that is served from the cache, by an object stored earlier
C26_Witness ==
    /\ app.initialised
    /\ lastOp = "updateSettings"
    /\ Cardinality(DOMAIN cache) >= 2
    /\ result < Len(heap)
    /\ args.settings = app.settings
    /\ sumValues(app.portfolio.assets) > 0
    /\ app.settings.horizonYears > 0

-----------------------------------------------------------------------------
(* Claims about the detailed projections (SpecTabs) *)

\* C24: the engine offers calculateDetailedProjections, which returns one entry per
\* individual asset (a series per scenario) and one liability series; so after the user
\* switches to the assets tab with a non-empty portfolio the application's
\* detailedProjections.assets has one entry per asset of the portfolio.
C24_OneEntryPerAsset ==
    (/\ app.initialised
     /\ lastOp = "switchTab"
     /\ app.activeTab = "assets"
     /\ app.portfolio.assets # <<>>) =>
        /\ "calculateDetailedProjections" \in engineMethods
        /\ Cardinality(DOMAIN app.detailedProjections.assets) = Len(app.portfolio.assets)

-----------------------------------------------------------------------------
(* Claims about loans in the application (SpecLoans) *)

\* C13: a stale monthlyPayment is never reachable: after any sequence of addLiability,
\* updateLiabilityValue (any field, any value) and removeLiability, every liability of the
\* portfolio has monthlyPayment = calculateMonthlyPayment(principal, rate, termYears) on
\* its current principal, rate and termYears.
C13_PaymentFresh ==
    app.initialised =>
        \A i \in DOMAIN app.portfolio.liabilities :
            LET l == app.portfolio.liabilities[i]
            IN  l.monthlyPayment = calculateMonthlyPayment(l.principal, l.rate, l.termYears)

\* C14: after any sequence of addLiability, updateLiabilityValue (any field) and
\* removeLiability, every liability of the portfolio has 0 <= currentBalance <= principal.
C14_BalanceWithinPrincipal ==
    app.initialised =>
        \A i \in DOMAIN app.portfolio.liabilities :
            LET l == app.portfolio.liabilities[i]
            IN  0 <= l.currentBalance /\ l.currentBalance <= l.principal


-----------------------------------------------------------------------------
(* Claims about the metrics (SpecMetrics) *)

\* the portfolios with the same lists as this one, whatever their cached totals
Recached(portfolio) ==
    {withCached(portfolio, tv, tl) :
        tv \in CachedTotals \cup {sumValues(portfolio.assets)},
        tl \in {0, sumBalances(portfolio.liabilities)}}

\* C16: the engine never trusts the cached totals: for portfolios with the same assets and
\* liabilities that differ only in totalValue, totalLiabilities and netWorth, the projections
\* are the same and so are the results of calculateMetrics, calculateMetricsWithLiabilities
\* and calculateRiskScore.
C16_TotalsNotTrusted ==
    \A q \in Recached(args.portfolio) :
        /\ newProjections(q, defaultScenarios, args.settings) = args.projections
        /\ lastOp = "calculateMetrics" =>
               calculateMetrics(q, args.projections, args.settings) = result
        /\ lastOp = "calculateMetricsWithLiabilities" =>
               calculateMetricsWithLiabilities(q, args.projections, args.settings) = result
        /\ lastOp = "calculateRiskScore" =>
               calculateRiskScore(q, args.volatility) = result

\* C17: the divisions of the metrics are guarded: calculateMetrics returns a growth rate
\* of 0 when totalValue <= 0 or horizonYears <= 0 and a volatility of 0 when
\* totalValue <= 0; calculateMetricsWithLiabilities does the same on the current net worth
\* and returns a debtToAssetsRatio of 0 when the current assets are 0; each of these is the
\* number 0, not NaN or Infinity.
C17_DivisionGuarded ==
    /\ lastOp = "calculateMetrics" =>
        /\ (args.portfolio.totalValue <= 0 \/ args.settings.horizonYears <= 0) =>
               result.growthRate = noGrowth
        /\ args.portfolio.totalValue <= 0 => result.volatility = zero
    /\ lastOp = "calculateMetricsWithLiabilities" =>
        /\ (result.currentNetWorth <= 0 \/ args.settings.horizonYears <= 0) =>
               result.growthRate = noGrowth
        /\ result.currentNetWorth <= 0 => result.volatility = zero
        /\ result.currentAssets = 0 => result.debtToAssetsRatio = zero

C17_Witness ==
    /\ lastOp = "calculateMetrics"
    /\ args.portfolio.assets # <<>>
    /\ args.portfolio.totalValue = 0
    /\ args.settings.horizonYears > 0
    /\ result.growthRate = noGrowth
    /\ result.volatility = zero

\* C18: calculateMetricsWithLiabilities takes absolute values of the net worth: for
\* horizonYears > 0 and a current net worth other than 0, of either sign, the growth rate
\* is ((|futureNetWorthBase| / |currentNetWorth|)^(1/horizonYears) - 1) * 100, where
\* futureNetWorthBase is the netWorth of the last base-scenario point.
C18_AbsoluteGrowth ==
    (/\ lastOp = "calculateMetricsWithLiabilities"
     /\ args.settings.horizonYears > 0
     /\ result.currentNetWorth # 0) =>
        LET future == result.futureNetWorth.base
        IN  result.growthRate =
                cagr(FracOver([num |-> Abs(future.num), den |-> future.den],
                              Abs(result.currentNetWorth)),
                     args.settings.horizonYears)

\* the weights the specification lists; any other type weighs `other`
riskWeight(type, other) ==
    CASE type = "cash" -> 1
      [] type = "bonds" -> 2
      [] type = "realty" -> 4
      [] type = "stocks" -> 6
      [] OTHER -> other

\* the sum over the assets of (value / totalValue) * weight(type), asset by asset
RECURSIVE weightedSum(_, _, _)
weightedSum(assets, totalValue, other) ==
    IF assets = <<>> THEN zero
    ELSE FracAdd(Frac(valueOrZero(Head(assets)) * riskWeight(Head(assets).type, other)
                          * (IF totalValue < 0 THEN -1 ELSE 1),
                      Abs(totalValue)),
                 weightedSum(Tail(assets), totalValue, other))

\* round(weighted sum + min(volatility / 20, 2)) clamped to [1, 10]
riskFormula(assets, totalValue, other, volatility) ==
    LET total == FracAdd(weightedSum(assets, totalValue, other),
                         FracMin(FracOver(volatility, 20), 2))
        rounded == MathRound(total.num, total.den)
    IN  IF rounded < 1 THEN 1 ELSE IF rounded > 10 THEN 10 ELSE rounded

\* the formula has a value: no division by a total of 0 and no type without a weight
formulaDefined(portfolio) ==
    \/ portfolio.assets = <<>>
    \/ /\ portfolio.totalValue # 0
       /\ \A i \in DOMAIN portfolio.assets :
              portfolio.assets[i].type \in {"cash", "bonds", "realty", "stocks"}

\* C19 as stated: for every portfolio, the empty one included, and every volatility the
\* risk score is round(sum of (value / totalValue) * weight(type) + min(volatility / 20, 2))
\* clamped to [1, 10], an integer in 1..10.
C19_WeightedFormula ==
    (lastOp = "calculateRiskScore" /\ formulaDefined(args.portfolio)) =>
        /\ result \in 1..10
        /\ result = riskFormula(args.portfolio.assets, args.portfolio.totalValue, 0,
                                args.volatility)

\* C19, amended: the risk score is an integer in 1..10 for every portfolio and every
\* finite volatility; it is 1 for a portfolio without assets, whatever the volatility, and
\* otherwise the clamped rounded formula, in which totalValue is the portfolio's cached
\* totalValue (1 when that is 0) and a type outside cash, bonds, realty, stocks weighs 3.
C19_RiskScore ==
    lastOp = "calculateRiskScore" =>
        /\ result \in 1..10
        /\ args.portfolio.assets = <<>> => result = 1
        /\ args.portfolio.assets # <<>> =>
               result = riskFormula(args.portfolio.assets,
                                    IF args.portfolio.totalValue # 0
                                    THEN args.portfolio.totalValue ELSE 1,
                                    3, args.volatility)

C19_Witness ==
    /\ lastOp = "calculateRiskScore"
    /\ args.portfolio.assets = <<>>
    /\ args.volatility.num >= 30 * args.volatility.den
    /\ result = 1


-----------------------------------------------------------------------------
(* Claims about the maximum drawdown (SpecDrawdown) *)

\* the drops (v[i] - v[j]) / v[i] * 100 over all i <= j with v[i] > 0, and 0
Drops(v) ==
    {Frac((v[i].nominal - v[j].nominal) * PercentBase, v[i].nominal) :
        <<i, j>> \in {ij \in (DOMAIN v) \X (DOMAIN v) :
                          ij[1] <= ij[2] /\ v[ij[1]].nominal > 0}}
    \cup {zero}

LargestDrop(v) ==
    CHOOSE m \in Drops(v) : \A d \in Drops(v) : d.num * m.den <= m.num * d.den

NonDecreasing(v) ==
    \A i \in DOMAIN v : i + 1 \in DOMAIN v => v[i].nominal <= v[i + 1].nominal

\* C21: for every series of non-negative nominal values calculateMaxDrawdown returns the
\* largest (v[i] - v[j]) / v[i] * 100 over all i <= j with v[i] > 0; the result is 0 for a
\* non-decreasing series and lies in [0, 100].
C21_StandardDrawdown ==
    lastOp = "calculateMaxDrawdown" =>
        /\ result = LargestDrop(args.projections)
        /\ result.num >= 0 /\ result.num <= 100 * result.den
        /\ NonDecreasing(args.projections) => result = zero

\* a fall from a peak that is partly recovered afterwards
C21_Witness ==
    /\ lastOp = "calculateMaxDrawdown"
    /\ \E i, j, k \in DOMAIN args.projections :
           /\ i < j /\ j < k
           /\ args.projections[i].nominal > args.projections[k].nominal
           /\ args.projections[k].nominal > args.projections[j].nominal
           /\ args.projections[j].nominal > 0
    /\ result.num > 0


-----------------------------------------------------------------------------
(* Claims about missing type metadata (SpecMetrics) *)

\* the type has no metadata: no registry entry, or no registry at all
NoMetadata(type) == ~window.assetClasses \/ getAssetInfo(type) = None

\* the sum of the values of the assets of one type
RECURSIVE TypeTotal(_, _)
TypeTotal(assets, type) ==
    IF assets = <<>> THEN 0
    ELSE (IF Head(assets).type = type THEN valueOrZero(Head(assets)) ELSE 0)
         + TypeTotal(Tail(assets), type)

-----------------------------------------------------------------------------
(* Claims about the breakdown by type (SpecProjection) *)

\* the portfolio reduced to its assets of one type
OnlyType(portfolio, type) ==
    [portfolio EXCEPT !.assets = SelectSeq(@, LAMBDA asset : asset.type = type)]

\* C25: each type compounds on its own at the inflation-derived rate: for every scenario
\* s and year y the breakdown has one entry per asset type present, and for a type t of
\* the registry breakdown[t] = (sum of the values of the assets of type t)
\* * (1 + (inflation + adjustment[t][s]) / 100)^y; the entry of a type is what it would be
\* were the assets of the other types not there, and an asset without value counts as 0.
C25_PerTypeCompounding ==
    Projected =>
        \A s \in {"pessimistic", "base", "optimistic"} :
          \A y \in 0..args.settings.horizonYears :
            /\ DOMAIN returned[s][y + 1].breakdown = TypesOf(args.portfolio.assets)
            /\ \A t \in TypesOf(args.portfolio.assets) :
                 /\ ~NoMetadata(t) =>
                       returned[s][y + 1].breakdown[t] =
                           TypeTotal(args.portfolio.assets, t)
                               * Pow(PercentBase + args.settings.inflation
                                        + assetTypes[t].inflationAdjustment[s], y)
                 /\ returned[s][y + 1].breakdown[t] =
                       yearPoint(OnlyType(args.portfolio, t), s, args.settings, y).breakdown[t]

\* stocks of 1.00 next to bonds without a value, inflation 6: after one optimistic year
\* the stocks stand at 1.16 and the bonds at 0
C25_Witness ==
    /\ Projected
    /\ window.assetClasses
    /\ args.portfolio.assets = <<[id |-> "a1", type |-> "stocks", value |-> 100],
                                 [id |-> "a5", type |-> "bonds"]>>
    /\ args.settings.inflation = 6
    /\ args.settings.horizonYears >= 1
    /\ returned.optimistic[2].breakdown["stocks"] = 100 * 116
    /\ returned.optimistic[2].breakdown["bonds"] = 0

-----------------------------------------------------------------------------
(* Claims about the event bus (SpecBus) *)

\* C27: emit(event) calls the handlers that were registered for the event when emit was
\* called, each once and in the order of registration, and no others; a handler that
\* throws neither stops the handlers after it nor lets the exception reach the emitter.
C27_EmitCallsRegistered ==
    [][lastOp' = "emit" =>
        /\ eventBus'.invoked =
               [i \in DOMAIN registered(eventBus, args'.event) |->
                   [event |-> args'.event, handler |-> registered(eventBus, args'.event)[i]]]
        /\ ~eventBus'.threw]_vars

\* an emit that called a throwing handler, then a onceWrapper that unsubscribed itself
\* during the loop, then a third handler, while the other event had a handler too
C27_Witness ==
    /\ lastOp = "emit"
    /\ Len(eventBus.invoked) = 3
    /\ throws(eventBus.invoked[1].handler.callback)
    /\ eventBus.invoked[2].handler.wrapper > 0
    /\ Len(registered(eventBus, args.event)) < 3
    /\ \E e \in DOMAIN eventBus.events : e # args.event /\ eventBus.events[e] # <<>>

\* C28: a handler subscribed with once() is called at most once however often the event
\* is emitted, and once it has been called it is not registered any more.
C28_OnceAtMostOnce ==
    \A k \in DOMAIN eventBus.calls :
        /\ eventBus.calls[k] <= 1
        /\ eventBus.calls[k] = 1 =>
               \A e \in DOMAIN eventBus.events :
                   \A i \in DOMAIN eventBus.events[e] : eventBus.events[e][i].wrapper # k

-----------------------------------------------------------------------------
(* Claims about the announcement of a save (SpecSave) *)

\* how often x occurs in a sequence
CountOf(seq, x) == Cardinality({i \in DOMAIN seq : seq[i] = x})

\* C29: a handler that calls saveData() once emits data:saved exactly once when the
\* write succeeded, and not at all when the write failed and data:error was emitted.
C29_SavedOnlyOnSuccess ==
    lastOp \in {"addAsset", "removeAsset", "updateAssetValue"} =>
        CountOf(eventBus.emitted, "data:saved") =
            IF CountOf(eventBus.emitted, "data:error") > 0 THEN 0 ELSE 1

-----------------------------------------------------------------------------
(* Claims about the default data (SpecDefaults) *)

\* C30: whatever the component did since it started from an empty store, loadData() on
\* a cleared store returns the defaults as getDefaultData() makes them: no assets, no
\* liabilities, totals of 0, a horizon of 10 years and an inflation of 6.
C30_DefaultsPristine ==
    lastOp = "loadData" /\ storage = None => result = getDefaultData

=============================================================================
